---------------------------- MODULE Spec2Model ----------------------------
(***************************************************************************)
(* Model of compare_rootfiles.py and rootutils.py: key enumeration of a    *)
(* ROOT file, the set comparison (--set), the listing comparison (--diff), *)
(* the bin-by-bin comparison of histograms and main's orchestration and    *)
(* exit status.                                                            *)
(*                                                                         *)
(* Representation.  A Python str is a sequence of one-character strings.   *)
(* Python None returned by a function that returns an exit status is       *)
(* NoneValue; the three results of compare_plot are "True", "False" and    *)
(* "None".  An uncaught exception is recorded by its name in raised.       *)
(*                                                                         *)
(* The environment.  What the two files hold is read when main reads it:   *)
(* the list of keys when the keys are extracted, an object when it is      *)
(* fetched.  rootutils.py imports nothing, so os is bound in its globals   *)
(* only if whoever loads the module binds it there; os_bound is that fact. *)
(* A histogram is what compare_plot asks of it: its dimension, its number  *)
(* of cells and the content of each cell; tf.Get may also give a null      *)
(* object, which is false in main's assert.                                *)
(*                                                                         *)
(* Four specifications: Spec is main; SpecKeys, SpecSet and SpecPlot run   *)
(* get_list_of_keys_deep, diff_set and compare_plot on inputs of their own.*)
(***************************************************************************)
EXTENDS Integers, Sequences, FiniteSets, TLC

VARIABLES
    pc,             \* position in main, or in the function under check
    args,           \* parsed command line (parse_args)
    the_file,       \* the file handed to get_list_of_keys_deep on its own
    same_file,      \* FILE1 and FILE2 are the same inode on the same device
    os_bound,       \* the name os is bound in the globals of rootutils
    tf1, tf2,       \* the two TFile handles
    yielded,        \* what get_list_of_keys_deep yielded, run on its own
    keys1, keys2,
    matching_keys,
    missing_keys,   \* [1 |-> ..., 2 |-> ...]
    common_keys,
    todo,           \* the part of sorted(common_keys) still to compare
    h1, h2,         \* the objects of the pair compared last
    ok_content,     \* what compare_plot returned last
    content_status, \* [OK |-> n, BAD |-> n]
    out,            \* what was printed, one tag per line or block
    ncompare,       \* number of calls of compare_plot
    after_close,    \* a closed file was asked for its keys or for an object
    total_keys,     \* the total handed to print_missing
    ret,            \* the value returned (main, diff_set)
    raised          \* name of the uncaught exception, "" when none

vars == <<pc, args, the_file, same_file, os_bound, tf1, tf2, yielded,
          keys1, keys2, matching_keys, missing_keys, common_keys, todo,
          h1, h2, ok_content, content_status, out, ncompare, after_close,
          total_keys, ret, raised>>

----------------------------------------------------------------------------
(* Bounds of the checked instances *)

\* keys (folders and leaves together) in a file of the enumerator's check
MaxNodes == 3
\* keys in each of the two files main compares
MainNodes == 3
\* cells of a histogram
MaxCells == 2
\* largest bin content
MaxVal == 1
\* size of the pool the key sets of diff_set are drawn from
MaxKeys == 3

----------------------------------------------------------------------------
(* class ExitStatus *)

IDENTICAL         == 0
CLARG_ERROR       == 2
INTERNAL_ERROR    == 3
EITHER_MISS       == 10
FIRST_MISS        == 11
SECOND_MISS       == 12
DIFFERENCE_COMMON == 13

\* Python's None where an exit status is expected
NoneValue == -1

\* the interpreter's exit status for an uncaught exception
EXCEPTION_STATUS == 1

(* exit(main()): exit(None) is status 0, an uncaught exception is status 1 *)
ExitCode(r, exc) ==
    IF exc # "" THEN EXCEPTION_STATUS
    ELSE IF r = NoneValue THEN 0
    ELSE r

----------------------------------------------------------------------------
(* Strings *)

\* code points, which order Python strings ("LF" is the line feed)
Ord(c) ==
    CASE c = "LF" -> 10
      [] c = "/" -> 47
      [] c = "a" -> 97
      [] c = "b" -> 98
      [] c = "d" -> 100
      [] c = "z" -> 122
      [] c = "é" -> 233

(* s < t for two str: lexicographic on code points *)
RECURSIVE StrLess(_, _)
StrLess(s, t) ==
    IF t = <<>> THEN FALSE
    ELSE IF s = <<>> THEN TRUE
    ELSE IF Ord(Head(s)) # Ord(Head(t)) THEN Ord(Head(s)) < Ord(Head(t))
    ELSE StrLess(Tail(s), Tail(t))

(* os.path.join(path, name) on POSIX *)
PathJoin(path, name) ==
    IF name # <<>> /\ Head(name) = "/" THEN name
    ELSE IF path = <<>> \/ path[Len(path)] = "/" THEN path \o name
    ELSE path \o <<"/">> \o name

(* regex.search(k) for a regex made of literal characters: pattern occurs in k *)
Search(pattern, k) ==
    \E i \in 0..(Len(k) - Len(pattern)) :
        \A j \in 1..Len(pattern) : k[i + j] = pattern[j]

----------------------------------------------------------------------------
(* Keys.  What the enumerator yields is a str or, for a folder met inside  *)
(* a folder, a generator object.  A generator object is equal to itself    *)
(* only: id is the file it was made for and its number among the generator *)
(* objects yielded for that file.                                          *)

StrKey(s) == [kind |-> "str", val |-> s, id |-> <<>>]
GenKey(fid, n) == [kind |-> "generator", val |-> <<>>, id |-> <<fid, n>>]

IsStr(k) == k.kind = "str"

----------------------------------------------------------------------------
(* Content of a ROOT file: a list of keys, a key being a leaf or a folder  *)
(* (TDirectory) with its own list of keys.                                 *)

LeafNames   == {<<"a">>, <<"b">>}
FolderNames == {<<"d">>}

Leaf(n)         == [name |-> n, folder |-> FALSE, kids |-> <<>>]
Folder(n, kids) == [name |-> n, folder |-> TRUE, kids |-> kids]

\* Forests(n): the lists of keys holding at most n keys at all depths
RECURSIVE Forests(_)
Forests(n) ==
    IF n = 0 THEN {<<>>}
    ELSE {<<>>} \cup UNION {
           LET entries == {Leaf(nm) : nm \in LeafNames}
                           \cup {Folder(nm, ks) : nm \in FolderNames,
                                                  ks \in Forests(k - 1)}
           IN  {<<e>> \o r : e \in entries, r \in Forests(n - k)}
           : k \in 1..n }

----------------------------------------------------------------------------
(* rootutils.get_list_of_keys_deep *)

\* the folders among the first i keys of a list
RECURSIVE FoldersUpTo(_, _)
FoldersUpTo(keys, i) ==
    IF i = 0 THEN 0
    ELSE FoldersUpTo(keys, i - 1) + (IF keys[i].folder THEN 1 ELSE 0)

\* the generator objects among the items yielded
RECURSIVE Generators(_)
Generators(items) ==
    IF items = <<>> THEN 0
    ELSE Generators(Tail(items)) + (IF IsStr(Head(items)) THEN 0 ELSE 1)

(* The inner generator get_keys_in_folder(tfolder, path).  Its body needs  *)
(* os for every key; a folder it meets is not iterated: the generator      *)
(* object made for it is itself the value yielded.  n generator objects    *)
(* were yielded for file fid before.                                       *)
get_keys_in_folder(tfolder, path, fid, n, os) ==
    IF tfolder = <<>> THEN [raised |-> "", items |-> <<>>]
    ELSE IF ~os THEN [raised |-> "NameError", items |-> <<>>]
    ELSE [raised |-> "",
          items  |-> [i \in 1..Len(tfolder) |->
                        IF tfolder[i].folder
                        THEN GenKey(fid, n + FoldersUpTo(tfolder, i))
                        ELSE StrKey(PathJoin(path, tfolder[i].name))]]

(* The outer loop over tfile.GetListOfKeys(), from key i on: `yield from`  *)
(* for a folder, the name for a leaf.                                      *)
RECURSIVE KeysFrom(_, _, _, _, _)
KeysFrom(tfile, i, fid, n, os) ==
    IF i > Len(tfile) THEN [raised |-> "", items |-> <<>>]
    ELSE LET k    == tfile[i]
             here == IF k.folder
                     THEN get_keys_in_folder(k.kids, k.name, fid, n, os)
                     ELSE [raised |-> "", items |-> <<StrKey(k.name)>>]
         IN  IF here.raised # "" THEN here
             ELSE LET rest == KeysFrom(tfile, i + 1, fid,
                                       n + Generators(here.items), os)
                  IN  IF rest.raised # "" THEN rest
                      ELSE [raised |-> "", items |-> here.items \o rest.items]

get_list_of_keys_deep(tfile, fid, os) == KeysFrom(tfile, 1, fid, 0, os)

(* set(...) of what a generator yields *)
SetOf(items) == {items[i] : i \in 1..Len(items)}

----------------------------------------------------------------------------
(* Objects stored in a file, as far as compare_plot looks at them:         *)
(* InheritsFrom('TH1'), GetDimension(), GetNcells(), GetBinContent(b) for  *)
(* b in 0..ncells-1 (content[b + 1]).                                      *)

NotHist ==
    [hist |-> FALSE, dim |-> 0, ncells |-> 0, content |-> <<>>, null |-> FALSE]
Hist(d, c) ==
    [hist |-> TRUE, dim |-> d, ncells |-> Len(c), content |-> c, null |-> FALSE]

\* what tf.Get gives when it cannot hand out the object: a null object
NullObject ==
    [hist |-> FALSE, dim |-> 0, ncells |-> 0, content |-> <<>>, null |-> TRUE]

\* truth value of a fetched object, as `assert h1 and h2` takes it
Bool(h) == ~h.null

\* TH1, TH2, TH3
Dimensions == 1..3

Histograms ==
    {Hist(d, c) : d \in Dimensions,
                  c \in UNION {[1..n -> 0..MaxVal] : n \in 1..MaxCells}}

Objects == {NotHist} \cup Histograms

\* what tf.Get may give main for a key: a null object, an object that is
\* not a histogram, an empty and a filled histogram, one of another
\* dimension, one with another cell count
MainObjects ==
    {NullObject, NotHist,
     Hist(1, <<0>>), Hist(1, <<1>>), Hist(2, <<0>>), Hist(1, <<0, 0>>)}

Verbosities == 0..5

(* h.Integral(0, -1): the sum over all cells *)
RECURSIVE SumCells(_, _)
SumCells(c, n) == IF n = 0 THEN 0 ELSE c[n] + SumCells(c, n - 1)

Integral(h) == SumCells(h.content, h.ncells)

----------------------------------------------------------------------------
(* compare_plot *)

(* The loop over the cells from cell b on: ok is ok_content after it,      *)
(* printed the cells it printed a line for.  Without print_every_bin the   *)
(* loop breaks at the first difference.                                    *)
RECURSIVE ScanBins(_, _, _, _, _)
ScanBins(a, c, b, ncells, print_every_bin) ==
    IF b >= ncells THEN [ok |-> TRUE, printed |-> <<>>]
    ELSE IF a.content[b + 1] # c.content[b + 1]
         THEN IF print_every_bin
              THEN [ok      |-> FALSE,
                    printed |-> <<b>> \o ScanBins(a, c, b + 1, ncells, TRUE).printed]
              ELSE [ok |-> FALSE, printed |-> <<>>]
         ELSE ScanBins(a, c, b + 1, ncells, print_every_bin)

\* a scan that leaves out cell 0
BinScanFromOne(a, c, ncells, print_every_bin) ==
    ScanBins(a, c, 1, ncells, print_every_bin)

(* for b in range(0, ncells1) *)
BinScan(a, c, ncells, print_every_bin) ==
    ScanBins(a, c, 0, ncells, print_every_bin)

(* The summary block of compare_plot, lines 98-107 *)
Summary(a, c, ok, verbosity) ==
    LET print_wrong_plot == verbosity >= 2
        print_good_plot  == verbosity >= 4
        print_every_bin  == verbosity >= 3
    IN  IF (print_wrong_plot \/ print_good_plot) /\ ~print_every_bin
        THEN IF ~ok
             THEN IF Integral(a) = Integral(c)
                  THEN [raised |-> "", out |-> <<"different_same_integral">>]
                  ELSE IF Integral(a) = 0
                       THEN [raised |-> "ZeroDivisionError", out |-> <<>>]
                       ELSE [raised |-> "", out |-> <<"different_integral">>]
             ELSE IF print_good_plot
                  THEN [raised |-> "", out |-> <<"equal">>]
                  ELSE [raised |-> "", out |-> <<>>]
        ELSE [raised |-> "", out |-> <<>>]

(* compare_plot(h1, h2, verbosity): ret is "True", "False", "None", or "-" *)
(* when an exception left the function.                                    *)
compare_plot(a, c, verbosity) ==
    IF ~a.hist \/ ~c.hist
    THEN [ret |-> "None", raised |-> "",
          out |-> IF verbosity >= 1 THEN <<"header", "not_histograms">> ELSE <<>>]
    ELSE IF a.dim # c.dim
    THEN [ret |-> "None", raised |-> "", out |-> <<"header", "different_dimensions">>]
    ELSE IF a.ncells # c.ncells
    THEN [ret |-> "None", raised |-> "", out |-> <<"header", "different_ncells">>]
    ELSE LET scan   == BinScan(a, c, a.ncells, verbosity >= 3)
             bins   == IF scan.printed = <<>> THEN <<>>
                       ELSE <<"header">> \o [i \in 1..Len(scan.printed) |-> "bin"]
             summ   == Summary(a, c, scan.ok, verbosity)
             okline == IF scan.ok /\ verbosity >= 5 THEN <<"header", "ok">> ELSE <<>>
         IN  IF summ.raised # ""
             THEN [ret |-> "-", raised |-> summ.raised, out |-> bins]
             ELSE [ret    |-> IF scan.ok THEN "True" ELSE "False",
                   raised |-> "",
                   out    |-> bins \o summ.out \o okline]

(* truth value of what compare_plot returned, as `if(ok_content)` takes it *)
Truthy(r) == r = "True"

----------------------------------------------------------------------------
(* sorted(keys), '\n'.join(...), '\t' + plot *)

AllStr(keys) == \A k \in keys : IsStr(k)

\* the least str of a non-empty set of str keys
MinKey(keys) == CHOOSE k \in keys : \A o \in keys \ {k} : StrLess(k.val, o.val)

RECURSIVE Sorted(_)
Sorted(keys) ==
    IF keys = {} THEN <<>>
    ELSE LET m == MinKey(keys) IN <<m>> \o Sorted(keys \ {m})

----------------------------------------------------------------------------
(* diff_full *)

(* '\n'.join(sorted(keys)) + '\n', one token per character *)
RECURSIVE JoinLines(_)
JoinLines(ks) ==
    IF ks = <<>> THEN <<>>
    ELSE IF Len(ks) = 1 THEN Head(ks).val
    ELSE Head(ks).val \o <<"LF">> \o JoinLines(Tail(ks))

ListingText(keys) == JoinLines(Sorted(keys)) \o <<"LF">>

\* bytes of the UTF-8 encoding of one character
Utf8Len(c) ==
    IF Ord(c) < 128 THEN 1
    ELSE IF Ord(c) < 2048 THEN 2
    ELSE IF Ord(c) < 65536 THEN 3
    ELSE 4

\* len(text.encode())
EncodedLen(text) ==
    LET width(w) == Cardinality({i \in 1..Len(text) : Utf8Len(text[i]) = w})
    IN  width(1) + 2 * width(2) + 3 * width(3) + 4 * width(4)

\* pending bytes at which the text layer of a file object hands them on
CHUNK_SIZE == 8192

(* What diff finds in the temporary file: temp.write() is not followed by  *)
(* a flush.  The text layer of the file object keeps the encoded text      *)
(* until CHUNK_SIZE bytes are pending; a text that long is handed on and,  *)
(* being larger than the buffer of the layer below, written to the file at *)
(* once.  A shorter text is still in memory when diff runs.                *)
OnDisk(text) == IF EncodedLen(text) >= CHUNK_SIZE THEN text ELSE <<>>

(* diff_full(keys1, keys2), diff having ended without trouble: the         *)
(* returncode of diff, 0 for equal files and 1 for different ones.         *)
diff_full(k1, k2) ==
    IF ~AllStr(k1) \/ ~AllStr(k2)
    THEN [raised |-> "TypeError", returncode |-> NoneValue]
    ELSE [raised     |-> "",
          returncode |-> IF OnDisk(ListingText(k1)) = OnDisk(ListingText(k2))
                         THEN 0 ELSE 1]

----------------------------------------------------------------------------
(* print_missing, print_content_status *)

(* One of the three blocks of print_missing, run after the blocks before   *)
(* it (prev): the count line with its percentage, then with `listing` the  *)
(* sorted keys, one line each.                                             *)
MissingBlock(prev, keys, tag, listing, total) ==
    IF prev.raised # "" \/ keys = {} THEN prev
    ELSE IF total = 0
    THEN [raised |-> "ZeroDivisionError", out |-> prev.out]
    ELSE IF ~listing
    THEN [raised |-> "", out |-> Append(prev.out, tag)]
    ELSE IF ~AllStr(keys)
    THEN [raised |-> "TypeError", out |-> Append(prev.out, tag)]
    ELSE [raised |-> "", out |-> prev.out \o <<tag, tag \o "_list">>]

print_missing(missing1, missing2, common, verbosity, total) ==
    LET b0 == [raised |-> "", out |-> <<>>]
        b1 == MissingBlock(b0, missing1, "missing_from_1", verbosity >= 2, total)
        b2 == MissingBlock(b1, missing2, "missing_from_2", verbosity >= 2, total)
    IN  MissingBlock(b2, common, "common", verbosity >= 4, total)

print_content_status(cs) ==
    IF cs.OK + cs.BAD = 0 THEN <<"nothing_in_common">>
    ELSE IF cs.BAD = 0 THEN <<"same_content">>
    ELSE <<"same_content", "different">>

----------------------------------------------------------------------------
(* diff_set *)

diff_set(k1, k2, verbosity) ==
    LET missing1 == k2 \ k1
        missing2 == k1 \ k2
        common   == missing1 \cap missing2
        total    == Cardinality(k1 \cup k2)
        report   == print_missing(missing1, missing2, common, verbosity, total)
    IN  [missing1 |-> missing1,
         missing2 |-> missing2,
         common   |-> common,
         total    |-> total,
         raised   |-> report.raised,
         out      |-> report.out,
         ret      |-> IF report.raised # "" THEN NoneValue
                      ELSE IF Cardinality(missing2) > 0 THEN SECOND_MISS
                      ELSE IF Cardinality(missing2) > 0 THEN FIRST_MISS
                      ELSE NoneValue]

----------------------------------------------------------------------------
(* Pieces of main *)

\* ROOT.TFile(name, 'READ')
TFileOpen == [open |-> TRUE, closes |-> 0]

\* a handle before the file is opened
TFileNone == [open |-> FALSE, closes |-> 0]

\* a Close() that is left out
CloseFileSkipped(tf) == tf

\* tf.Close()
CloseFile(tf) == [open |-> FALSE, closes |-> tf.closes + 1]

\* --plot and --plot-exclude: absent (None) or a compiled regex
NoRegex  == [given |-> FALSE, pattern |-> <<>>]
Regex(p) == [given |-> TRUE, pattern |-> p]

(* { k for k in keys if regex.search(k) }; search raises TypeError on a    *)
(* key that is not a str.                                                  *)
SelectMatching(keys, regex) ==
    IF ~AllStr(keys) THEN [raised |-> "TypeError", keys |-> {}]
    ELSE [raised |-> "", keys |-> {k \in keys : Search(regex.pattern, k.val)}]

(* { k for k in keys if not regex.search(k) } *)
SelectNotMatching(keys, regex) ==
    IF ~AllStr(keys) THEN [raised |-> "TypeError", keys |-> {}]
    ELSE [raised |-> "", keys |-> {k \in keys : ~Search(regex.pattern, k.val)}]

\* len(matching_keys) == 0
NothingSelected(matching) == Cardinality(matching) = 0

\* the missing keys taken from all keys, as diff_set takes them, not from the selection
MissingFromAll(matching, keys) == (keys1 \cup keys2) \ keys

\* matching_keys - keys
MissingFrom(matching, keys) == matching \ keys

\* matching_keys & keys1 & keys2
CommonOf(matching, k1, k2) == (matching \cap k1) \cap k2

\* if(ok_content): content_status['OK'] += 1  else: content_status['BAD'] += 1
Count(cs, r) ==
    IF Truthy(r) THEN [cs EXCEPT !.OK = @ + 1] ELSE [cs EXCEPT !.BAD = @ + 1]

\* the two tests for missing keys in the other order
MainStatusFirstMissFirst(cs, missing) ==
    IF cs.BAD > 0 THEN DIFFERENCE_COMMON
    ELSE IF Cardinality(missing[1]) > 0 THEN FIRST_MISS
    ELSE IF Cardinality(missing[2]) > 0 THEN SECOND_MISS
    ELSE IDENTICAL

\* the status main returns after the comparison, lines 311-318
MainStatus(cs, missing) ==
    IF cs.BAD > 0 THEN DIFFERENCE_COMMON
    ELSE IF Cardinality(missing[2]) > 0 THEN SECOND_MISS
    ELSE IF Cardinality(missing[1]) > 0 THEN FIRST_MISS
    ELSE IDENTICAL

----------------------------------------------------------------------------
(* Inputs *)

PlotArgs    == {NoRegex, Regex(<<"a">>), Regex(<<"d", "/">>), Regex(<<"z">>)}
ExcludeArgs == {NoRegex, Regex(<<"a">>), Regex(<<"b">>)}

MainArgs ==
    [diff : BOOLEAN, set : BOOLEAN, plot : PlotArgs,
     plot_exclude : ExcludeArgs, verbosity : Verbosities]

\* arguments of a function checked on its own: only verbosity is read
OnlyVerbosity(v) ==
    [diff |-> FALSE, set |-> FALSE, plot |-> NoRegex,
     plot_exclude |-> NoRegex, verbosity |-> v]

KeyNames == << <<"a">>, <<"b">>, <<"d", "/", "a">>, <<"d", "/", "b">>,
               <<"z">>, <<"d", "/", "z">> >>

\* the keys the sets given to diff_set are made of
KeyPool == {StrKey(KeyNames[i]) : i \in 1..MaxKeys}

\* what get_list_of_keys_deep can give for a file main is run on
Enumerations ==
    [fid \in {1, 2}, os \in BOOLEAN |->
        {get_list_of_keys_deep(f, fid, os) : f \in Forests(MainNodes)}]

\* a name that alone fills the chunk of the listing written by diff_full
LongName(c) == [i \in 1..(CHUNK_SIZE - 1) |-> c]

\* files with one key of such a name; they are looked at where the listing
\* is written, in a run with --diff as its only option but the verbosity
LongFiles == {<<Leaf(LongName(c))>> : c \in {"a", "b"}}

LongEnumerations ==
    [fid \in {1, 2}, os \in BOOLEAN |->
        {get_list_of_keys_deep(f, fid, os) : f \in LongFiles}]

\* the enumerations main is run on with the arguments a
EnumerationsFor(a, fid, os) ==
    Enumerations[fid, os]
        \cup (IF a.diff /\ ~a.set /\ a.plot = NoRegex /\ a.plot_exclude = NoRegex
              THEN LongEnumerations[fid, os] ELSE {})

\* everything but pc, the inputs and the handles, as main finds it at its start
Fresh ==
    /\ yielded = <<>>
    /\ keys1 = {} /\ keys2 = {}
    /\ matching_keys = {}
    /\ missing_keys = [i \in {1, 2} |-> {}]
    /\ common_keys = {}
    /\ todo = <<>>
    /\ h1 = NotHist /\ h2 = NotHist
    /\ ok_content = "None"
    /\ content_status = [OK |-> 0, BAD |-> 0]
    /\ out = <<>>
    /\ ncompare = 0
    /\ after_close = FALSE
    /\ total_keys = 0
    /\ ret = NoneValue
    /\ raised = ""

----------------------------------------------------------------------------
(* main *)

Init ==
    /\ pc = "start"
    /\ args \in MainArgs
    /\ the_file = <<>>
    /\ same_file \in BOOLEAN
    /\ os_bound \in BOOLEAN
    /\ tf1 = TFileNone /\ tf2 = TFileNone
    /\ Fresh

(* lines 231-239: open both files; the same file twice is an error *)
OpenFiles ==
    /\ pc = "start"
    /\ IF same_file
       THEN /\ tf1' = CloseFile(TFileOpen)
            /\ tf2' = CloseFile(TFileOpen)
            /\ out' = Append(out, "same_file")
            /\ ret' = CLARG_ERROR
            /\ pc' = "done"
       ELSE /\ tf1' = TFileOpen
            /\ tf2' = TFileOpen
            /\ pc' = "keys1"
            /\ UNCHANGED <<out, ret>>
    /\ UNCHANGED <<args, the_file, same_file, os_bound, yielded, keys1,
                   keys2, matching_keys, missing_keys, common_keys, todo, h1,
                   h2, ok_content, content_status, ncompare, after_close,
                   total_keys, raised>>

(* line 242: keys1 = set(get_list_of_keys_deep(tf1)), for what FILE1 holds *)
ExtractKeys1 ==
    /\ pc = "keys1"
    /\ \E r \in EnumerationsFor(args, 1, os_bound) :
         /\ raised' = r.raised
         /\ keys1' = SetOf(r.items)
         /\ pc' = IF r.raised # "" THEN "raised" ELSE "keys2"
    /\ after_close' = (after_close \/ ~tf1.open)
    /\ UNCHANGED <<args, the_file, same_file, os_bound, tf1, tf2, yielded, keys2,
                   matching_keys, missing_keys, common_keys, todo, h1, h2,
                   ok_content, content_status, out, ncompare, total_keys, ret>>

(* line 246: keys2 = set(get_list_of_keys_deep(tf2)), for what FILE2 holds *)
ExtractKeys2 ==
    /\ pc = "keys2"
    /\ \E r \in EnumerationsFor(args, 2, os_bound) :
         /\ raised' = r.raised
         /\ keys2' = SetOf(r.items)
         /\ pc' = IF r.raised # "" THEN "raised" ELSE "dispatch"
    /\ after_close' = (after_close \/ ~tf2.open)
    /\ UNCHANGED <<args, the_file, same_file, os_bound, tf1, tf2, yielded, keys1,
                   matching_keys, missing_keys, common_keys, todo, h1, h2,
                   ok_content, content_status, out, ncompare, total_keys, ret>>

(* lines 251-258: --diff.  diff ends with returncode 0 or 1, or in trouble *)
(* (returncode 2), on which diff_full leaves the process by exit(3).       *)
DiffMode ==
    /\ pc = "dispatch"
    /\ args.diff
    /\ tf1' = CloseFile(tf1)
    /\ tf2' = CloseFile(tf2)
    /\ \E trouble \in BOOLEAN :
         LET d == diff_full(keys1, keys2)
         IN  IF d.raised # ""
             THEN /\ raised' = d.raised
                  /\ pc' = "raised"
                  /\ UNCHANGED <<out, ret>>
             ELSE IF trouble
             THEN /\ out' = Append(out, "error_in_diff")
                  /\ ret' = INTERNAL_ERROR
                  /\ pc' = "exited"
                  /\ UNCHANGED raised
             ELSE /\ out' = Append(out, "diff_stdout")
                  /\ ret' = IF d.returncode = 1 THEN EITHER_MISS ELSE IDENTICAL
                  /\ pc' = "done"
                  /\ UNCHANGED raised
    /\ UNCHANGED <<args, the_file, same_file, os_bound, yielded, keys1,
                   keys2, matching_keys, missing_keys, common_keys, todo, h1,
                   h2, ok_content, content_status, ncompare, after_close,
                   total_keys>>

(* What a call diff_set(keys1, keys2, verbosity=args.verbosity) leaves *)
DiffSetCall ==
    LET d == diff_set(keys1, keys2, args.verbosity)
    IN  /\ missing_keys' = [i \in {1, 2} |-> IF i = 1 THEN d.missing1 ELSE d.missing2]
        /\ common_keys' = d.common
        /\ total_keys' = d.total
        /\ out' = out \o d.out
        /\ raised' = d.raised
        /\ ret' = d.ret
        /\ pc' = IF d.raised # "" THEN "raised" ELSE "done"

(* lines 259-262: --set *)
SetMode ==
    /\ pc = "dispatch"
    /\ ~args.diff
    /\ args.set
    /\ tf1' = CloseFile(tf1)
    /\ tf2' = CloseFile(tf2)
    /\ DiffSetCall
    /\ UNCHANGED <<args, the_file, same_file, os_bound, yielded, keys1,
                   keys2, matching_keys, todo, h1, h2, ok_content,
                   content_status, ncompare, after_close>>

(* lines 264-275: all keys, or those matching --plot *)
SelectPlot ==
    /\ pc = "dispatch"
    /\ ~args.diff
    /\ ~args.set
    /\ LET all == keys1 \cup keys2
           sel == IF args.plot.given THEN SelectMatching(all, args.plot)
                  ELSE [raised |-> "", keys |-> all]
       IN  IF sel.raised # ""
           THEN /\ raised' = sel.raised
                /\ pc' = "raised"
                /\ out' = Append(out, "total_keys")
                /\ matching_keys' = all
                /\ UNCHANGED <<tf1, tf2, ret>>
           ELSE IF args.plot.given /\ NothingSelected(sel.keys)
           THEN /\ tf1' = CloseFile(tf1)
                /\ tf2' = CloseFile(tf2)
                /\ out' = out \o <<"total_keys", "error_no_keys_matching">>
                /\ matching_keys' = sel.keys
                /\ ret' = CLARG_ERROR
                /\ pc' = "done"
                /\ UNCHANGED raised
           ELSE /\ matching_keys' = sel.keys
                /\ out' = IF args.plot.given
                          THEN out \o <<"total_keys", "matching_regex">>
                          ELSE Append(out, "total_keys")
                /\ pc' = "exclude"
                /\ UNCHANGED <<tf1, tf2, ret, raised>>
    /\ UNCHANGED <<args, the_file, same_file, os_bound, yielded, keys1,
                   keys2, missing_keys, common_keys, todo, h1, h2, ok_content,
                   content_status, ncompare, after_close, total_keys>>

(* lines 277-293: drop the keys matching --plot-exclude, then split the    *)
(* selection into missing and common keys                                  *)
ExcludePlot ==
    /\ pc = "exclude"
    /\ LET sel == IF args.plot_exclude.given
                  THEN SelectNotMatching(matching_keys, args.plot_exclude)
                  ELSE [raised |-> "", keys |-> matching_keys]
       IN  IF sel.raised # ""
           THEN /\ raised' = sel.raised
                /\ pc' = "raised"
                /\ UNCHANGED <<tf1, tf2, out, ret, matching_keys, missing_keys,
                               common_keys, todo>>
           ELSE IF args.plot_exclude.given /\ NothingSelected(sel.keys)
           THEN /\ tf1' = CloseFile(tf1)
                /\ tf2' = CloseFile(tf2)
                /\ out' = Append(out, "error_all_keys_excluded")
                /\ matching_keys' = sel.keys
                /\ ret' = CLARG_ERROR
                /\ pc' = "done"
                /\ UNCHANGED <<raised, missing_keys, common_keys, todo>>
           ELSE /\ matching_keys' = sel.keys
                /\ out' = IF args.plot_exclude.given
                          THEN Append(out, "not_matching_regex") ELSE out
                /\ missing_keys' = [i \in {1, 2} |->
                                      MissingFrom(sel.keys, IF i = 1 THEN keys1 ELSE keys2)]
                /\ common_keys' = CommonOf(sel.keys, keys1, keys2)
                /\ todo' = Sorted(CommonOf(sel.keys, keys1, keys2))
                /\ pc' = "loop"
                /\ UNCHANGED <<tf1, tf2, ret, raised>>
    /\ UNCHANGED <<args, the_file, same_file, os_bound, yielded, keys1,
                   keys2, h1, h2, ok_content, content_status, ncompare,
                   after_close, total_keys>>

(* lines 296-302: one turn of the loop: fetch the pair stored under the    *)
(* next common key and compare it                                          *)
ComparePlot ==
    /\ pc = "loop"
    /\ todo # <<>>
    /\ \E a \in MainObjects, c \in MainObjects :
         /\ h1' = a
         /\ h2' = c
         /\ IF ~(Bool(a) /\ Bool(c))
            THEN \* line 299: the assert fails, compare_plot is not called
                 /\ raised' = "AssertionError"
                 /\ pc' = "raised"
                 /\ UNCHANGED <<ok_content, content_status, todo, out,
                                ncompare>>
            ELSE LET r == compare_plot(a, c, args.verbosity)
                 IN  /\ out' = out \o r.out
                     /\ raised' = r.raised
                     /\ ncompare' = ncompare + 1
                     /\ IF r.raised # ""
                        THEN /\ pc' = "raised"
                             /\ UNCHANGED <<ok_content, content_status, todo>>
                        ELSE /\ ok_content' = r.ret
                             /\ content_status' = Count(content_status, r.ret)
                             /\ todo' = Tail(todo)
                             /\ pc' = "loop"
    /\ after_close' = (after_close \/ ~tf1.open \/ ~tf2.open)
    /\ UNCHANGED <<args, the_file, same_file, os_bound, tf1, tf2, yielded,
                   keys1, keys2, matching_keys, missing_keys, common_keys,
                   total_keys, ret>>

(* lines 304-318: close, report, return *)
Finish ==
    /\ pc = "loop"
    /\ todo = <<>>
    /\ tf1' = CloseFile(tf1)
    /\ tf2' = CloseFile(tf2)
    /\ total_keys' = Cardinality(matching_keys)
    /\ LET report == print_missing(missing_keys[1], missing_keys[2], common_keys,
                                   args.verbosity, Cardinality(matching_keys))
       IN  IF report.raised # ""
           THEN /\ out' = out \o report.out
                /\ raised' = report.raised
                /\ pc' = "raised"
                /\ UNCHANGED ret
           ELSE /\ out' = out \o report.out \o print_content_status(content_status)
                /\ ret' = MainStatus(content_status, missing_keys)
                /\ pc' = "done"
                /\ UNCHANGED raised
    /\ UNCHANGED <<args, the_file, same_file, os_bound, yielded, keys1,
                   keys2, matching_keys, missing_keys, common_keys, todo, h1,
                   h2, ok_content, content_status, ncompare, after_close>>

Next ==
    \/ OpenFiles
    \/ ExtractKeys1
    \/ ExtractKeys2
    \/ DiffMode
    \/ SetMode
    \/ SelectPlot
    \/ ExcludePlot
    \/ ComparePlot
    \/ Finish

Spec == Init /\ [][Next]_vars

----------------------------------------------------------------------------
(* get_list_of_keys_deep on its own *)

InitKeys ==
    /\ pc = "keys"
    /\ args = OnlyVerbosity(1)
    /\ the_file \in Forests(MaxNodes)
    /\ same_file = FALSE
    /\ os_bound \in BOOLEAN
    /\ tf1 = TFileOpen /\ tf2 = TFileNone
    /\ Fresh

CallKeys ==
    /\ pc = "keys"
    /\ LET r == get_list_of_keys_deep(the_file, 1, os_bound)
       IN  /\ raised' = r.raised
           /\ yielded' = r.items
           /\ keys1' = SetOf(r.items)
           /\ pc' = IF r.raised # "" THEN "raised" ELSE "returned"
    /\ after_close' = (after_close \/ ~tf1.open)
    /\ UNCHANGED <<args, the_file, same_file, os_bound, tf1, tf2, keys2,
                   matching_keys, missing_keys, common_keys, todo, h1, h2,
                   ok_content, content_status, out, ncompare, total_keys, ret>>

NextKeys == CallKeys

SpecKeys == InitKeys /\ [][NextKeys]_vars

----------------------------------------------------------------------------
(* diff_set on its own *)

InitSet ==
    /\ pc = "diff_set"
    /\ \E v \in Verbosities : args = OnlyVerbosity(v)
    /\ the_file = <<>>
    /\ same_file = FALSE
    /\ os_bound = FALSE
    /\ tf1 = TFileNone /\ tf2 = TFileNone
    /\ yielded = <<>>
    /\ keys1 \in SUBSET KeyPool
    /\ keys2 \in SUBSET KeyPool
    /\ matching_keys = {}
    /\ missing_keys = [i \in {1, 2} |-> {}]
    /\ common_keys = {}
    /\ todo = <<>>
    /\ h1 = NotHist /\ h2 = NotHist
    /\ ok_content = "None"
    /\ content_status = [OK |-> 0, BAD |-> 0]
    /\ out = <<>>
    /\ ncompare = 0
    /\ after_close = FALSE
    /\ total_keys = 0
    /\ ret = NoneValue
    /\ raised = ""

CallDiffSet ==
    /\ pc = "diff_set"
    /\ DiffSetCall
    /\ UNCHANGED <<args, the_file, same_file, os_bound, tf1, tf2, yielded,
                   keys1, keys2, matching_keys, todo, h1, h2, ok_content,
                   content_status, ncompare, after_close>>

NextSet == CallDiffSet

SpecSet == InitSet /\ [][NextSet]_vars

----------------------------------------------------------------------------
(* compare_plot on its own *)

InitPlot ==
    /\ pc = "compare_plot"
    /\ \E v \in Verbosities : args = OnlyVerbosity(v)
    /\ the_file = <<>>
    /\ same_file = FALSE
    /\ os_bound = FALSE
    /\ tf1 = TFileNone /\ tf2 = TFileNone
    /\ yielded = <<>>
    /\ keys1 = {} /\ keys2 = {}
    /\ matching_keys = {}
    /\ missing_keys = [i \in {1, 2} |-> {}]
    /\ common_keys = {}
    /\ todo = <<>>
    /\ h1 \in Objects
    /\ h2 \in Objects
    /\ ok_content = "-"
    /\ content_status = [OK |-> 0, BAD |-> 0]
    /\ out = <<>>
    /\ ncompare = 0
    /\ after_close = FALSE
    /\ total_keys = 0
    /\ ret = NoneValue
    /\ raised = ""

CallComparePlot ==
    /\ pc = "compare_plot"
    /\ LET r == compare_plot(h1, h2, args.verbosity)
       IN  /\ ok_content' = r.ret
           /\ out' = r.out
           /\ raised' = r.raised
           /\ pc' = IF r.raised # "" THEN "raised" ELSE "returned"
    /\ ncompare' = ncompare + 1
    /\ UNCHANGED <<args, the_file, same_file, os_bound, tf1, tf2, yielded,
                   keys1, keys2, matching_keys, missing_keys, common_keys,
                   todo, h1, h2, content_status, after_close, total_keys, ret>>

NextPlot == CallComparePlot

SpecPlot == InitPlot /\ [][NextPlot]_vars

----------------------------------------------------------------------------
(* Properties *)

Printed(tag) == \E i \in 1..Len(out) : out[i] = tag

FullMode == ~args.diff /\ ~args.set

\* main returned from its last line, after the report on the content
Completed ==
    /\ pc = "done"
    /\ FullMode
    /\ Printed("nothing_in_common") \/ Printed("same_content")

\* one of the blocks of print_missing was printed
MissingReportPrinted ==
    Printed("missing_from_1") \/ Printed("missing_from_2") \/ Printed("common")

(* The fully-qualified paths of the leaves below a list of keys, depth     *)
(* first, each the names of its folders and its own name joined by "/".    *)
RECURSIVE LeafPaths(_, _)
LeafPaths(keys, prefix) ==
    IF keys = <<>> THEN <<>>
    ELSE LET k == Head(keys)
         IN  (IF k.folder
              THEN LeafPaths(k.kids, prefix \o k.name \o <<"/">>)
              ELSE <<StrKey(prefix \o k.name)>>)
             \o LeafPaths(Tail(keys), prefix)

(* C1: for a directory tree of any depth get_list_of_keys_deep yields      *)
(* exactly one string per leaf, its fully-qualified path, and nothing      *)
(* else, so the key set made of it is the set of leaf paths.               *)
C1_YieldsLeafPaths ==
    pc \in {"returned", "raised"} =>
        /\ raised = ""
        /\ yielded = LeafPaths(the_file, <<>>)
        /\ keys1 = SetOf(LeafPaths(the_file, <<>>))

(* C2: diff_set hands to the report missing-from-1 = keys2 \ keys1,        *)
(* missing-from-2 = keys1 \ keys2, common = keys1 /\ keys2 and the total   *)
(* |keys1 \/ keys2|; common is not empty when the files share a key.       *)
C2_SetModeSubsets ==
    pc \in {"done", "raised"} =>
        /\ missing_keys[1] = keys2 \ keys1
        /\ missing_keys[2] = keys1 \ keys2
        /\ common_keys = keys1 \cap keys2
        /\ total_keys = Cardinality(keys1 \cup keys2)
        /\ (keys1 \cap keys2 # {} => common_keys # {})

(* C3: with --set the exit status is IDENTICAL exactly when keys1 = keys2, *)
(* SECOND_MISS when file 2 lacks a key of file 1, FIRST_MISS when file 1   *)
(* lacks a key of file 2 and file 2 lacks none.                            *)
C3_SetModeExitStatus ==
    (pc = "done" /\ args.set /\ ~args.diff /\ ~same_file) =>
        LET status == ExitCode(ret, raised)
        IN  /\ (status = IDENTICAL) <=> (keys1 = keys2)
            /\ (keys1 \ keys2 # {}) => status = SECOND_MISS
            /\ (keys2 \ keys1 # {} /\ keys1 \ keys2 = {}) => status = FIRST_MISS

(* C4: comparing a common key whose object in either file is not a         *)
(* histogram leaves the OK and the BAD counter as they were.               *)
C4_NonHistogramSkipped ==
    [][(pc = "loop" /\ ncompare' = ncompare + 1 /\ (~h1'.hist \/ ~h2'.hist))
          => content_status' = content_status]_vars

(* C5: at every verbosity compare_plot returns True exactly when both      *)
(* objects are histograms of equal dimension and equal cell count N with   *)
(* equal content in every cell 0..N-1; the early exit below verbosity 3    *)
(* gives what the full scan gives.                                         *)
C5_TrueIffIdentical ==
    pc \in {"returned", "raised"} =>
        ((ok_content = "True") <=>
            /\ h1.hist /\ h2.hist
            /\ h1.dim = h2.dim
            /\ h1.ncells = h2.ncells
            /\ \A b \in 0..(h1.ncells - 1) : h1.content[b + 1] = h2.content[b + 1])

\* the early exit taken with cells left: False returned below verbosity 3
\* for a pair that differs in cell 0 and agrees in its last cell
C5_Witness ==
    /\ pc = "returned"
    /\ args.verbosity < 3
    /\ ok_content = "False"
    /\ h1.ncells >= 2
    /\ h1.content[1] # h2.content[1]
    /\ h1.content[h1.ncells] = h2.content[h2.ncells]

(* C6: in full content mode with a non-empty selection main returns        *)
(* DIFFERENCE_COMMON if a common pair was counted as different, else       *)
(* SECOND_MISS if a selected key is absent from file 2, else FIRST_MISS if *)
(* one is absent from file 1, else IDENTICAL; so IDENTICAL exactly when    *)
(* nothing selected is missing and nothing was counted as different.       *)
C6_ReturnPriority ==
    (Completed /\ matching_keys # {}) =>
        /\ ret = IF content_status.BAD > 0 THEN DIFFERENCE_COMMON
                 ELSE IF matching_keys \ keys2 # {} THEN SECOND_MISS
                 ELSE IF matching_keys \ keys1 # {} THEN FIRST_MISS
                 ELSE IDENTICAL
        /\ (ret = IDENTICAL) <=>
              /\ matching_keys \subseteq keys1
              /\ matching_keys \subseteq keys2
              /\ content_status.BAD = 0

\* keys missing from both files and nothing counted as different:
\* SECOND_MISS wins over FIRST_MISS
C6_Witness ==
    /\ Completed
    /\ missing_keys[1] # {}
    /\ missing_keys[2] # {}
    /\ content_status.BAD = 0
    /\ ret = SECOND_MISS

\* the regex of --plot matches no key of keys1 | keys2
NoKeyMatches ==
    /\ args.plot.given
    /\ keys1 \cup keys2 # {}
    /\ \A k \in keys1 \cup keys2 : ~(IsStr(k) /\ Search(args.plot.pattern, k.val))

\* the keys selected by --plot, or all keys without it
Selected ==
    IF args.plot.given
    THEN {k \in keys1 \cup keys2 : IsStr(k) /\ Search(args.plot.pattern, k.val)}
    ELSE keys1 \cup keys2

\* the regex of --plot-exclude removes every selected key
AllExcluded ==
    /\ args.plot_exclude.given
    /\ Selected # {}
    /\ \A k \in Selected : IsStr(k) /\ Search(args.plot_exclude.pattern, k.val)

ReportedAsUserError ==
    /\ ret = CLARG_ERROR
    /\ ncompare = 0
    /\ ~MissingReportPrinted

(* C7: the same file given twice (found before any key is enumerated), a   *)
(* --plot regex matching no key, a --plot-exclude regex removing every     *)
(* selected key: each ends with CLARG_ERROR, without a call of             *)
(* compare_plot and without a missing/common report.                      *)
C7_UserErrors ==
    /\ same_file => pc \in {"start", "done"}
    /\ pc = "done" =>
         /\ same_file => ReportedAsUserError
         /\ (~same_file /\ NoKeyMatches) => ReportedAsUserError
         /\ (~same_file /\ AllExcluded) => ReportedAsUserError

(* C8: at verbosity 4 or more compare_plot prints the one-line `equal`     *)
(* summary for a pair of compatible histograms that are identical in       *)
(* every cell.                                                             *)
C8_EqualLinePrinted ==
    (pc = "returned" /\ args.verbosity >= 4 /\ ok_content = "True")
        => Printed("equal")

(* C9: whenever main has returned, each of the two files was closed        *)
(* exactly once, and no closed file is ever asked for keys or objects.     *)
C9_ClosedOnceBeforeReturn ==
    /\ ~after_close
    /\ pc = "done" =>
         /\ ~tf1.open /\ tf1.closes = 1
         /\ ~tf2.open /\ tf2.closes = 1

\* a normal completion that fetched objects from both files
C9_Witness ==
    /\ Completed
    /\ ncompare > 0
    /\ tf1.closes = 1 /\ tf2.closes = 1

(* C10: in full content mode missing-from-1 = selected \ keys1,            *)
(* missing-from-2 = selected \ keys2 and common = selected /\ keys1 /\     *)
(* keys2 are pairwise disjoint with the selection as their union; their    *)
(* sizes sum to the reported total, which is positive when one of them is  *)
(* not empty.                                                              *)
C10_PartitionOfSelection ==
    (FullMode /\ (pc = "loop" \/ Completed)) =>
        /\ missing_keys[1] = matching_keys \ keys1
        /\ missing_keys[2] = matching_keys \ keys2
        /\ common_keys = (matching_keys \cap keys1) \cap keys2
        /\ missing_keys[1] \cap missing_keys[2] = {}
        /\ missing_keys[1] \cap common_keys = {}
        /\ missing_keys[2] \cap common_keys = {}
        /\ missing_keys[1] \cup missing_keys[2] \cup common_keys = matching_keys
        /\ Completed =>
             /\ total_keys = Cardinality(matching_keys)
             /\ Cardinality(missing_keys[1]) + Cardinality(missing_keys[2])
                  + Cardinality(common_keys) = total_keys
             /\ (missing_keys[1] \cup missing_keys[2] \cup common_keys # {})
                  => total_keys > 0

\* a report in which none of the three subsets is empty
C10_Witness ==
    /\ Completed
    /\ missing_keys[1] # {}
    /\ missing_keys[2] # {}
    /\ common_keys # {}
    /\ total_keys = 3
    /\ MissingReportPrinted

============================================================================
